---- MODULE Spec2Model ----
(***************************************************************************)
(* eeprom-93cxx: a spidev based utility for flashing 93Cxx serial EEPROMs. *)
(* The model follows src/eeprom-93cxx.c: main's option handling and        *)
(* profile finalization, the header encoder prepare_cmd, the transaction   *)
(* primitives and the read / write / erase loops, run against a 93Cxx      *)
(* device on the other end of the SPI bus.                                 *)
(***************************************************************************)
EXTENDS Integers, Sequences, FiniteSets

VARIABLES
    pc,      \* position of the process in main / eeprom_run / the operation
    args,    \* the command line of the current invocation
    main,    \* main's locals: eeprom_type, type_specified, parameter_specified, x16, burst
    cfg,     \* struct eeprom_cfg: action, burst_read
    eeprom,  \* struct eeprom: name, size, addr_bits, flags, is_x16
    ret,     \* value the last primitive (or sanitize_input) handed its caller
    exit,    \* value main returned (meaningful when pc = "exit")
    msg,     \* last diagnostic printed on stderr
    i,       \* loop index of eeprom_read / eeprom_program_array
    buf,     \* the malloc'ed image buffer
    oob,     \* a data phase touched bytes outside buf
    file,    \* content of the file named on the command line
    done,    \* the operation ran to the end of its function
    xfer,    \* the last SPI message handed to ioctl
    nxfer,   \* number of SPI messages that carry a command header
    mem,     \* device: memory array, in bytes
    wen,     \* device: write-enable latch
    busy,    \* device: remaining polls of the self-timed write cycle
    prev     \* what the previous invocation wrote or read back

vars == <<pc, args, main, cfg, eeprom, ret, exit, msg, i, buf, oob, file,
          done, xfer, nxfer, mem, wen, busy, prev>>

(***************************************************************************)
(* Bounds of the model.                                                    *)
(***************************************************************************)
MaxBusy == 1        \* longest write cycle of the device, in status polls
MaxEncBits == 14    \* largest addr_bits the encoder is probed with
MaxEncDummy == 2    \* largest dummy_bits the encoder is probed with
MaxEncAddr == 520   \* the encoder is probed with every address up to this

(***************************************************************************)
(* Program constants.                                                      *)
(***************************************************************************)
OPCODE_READ == 2
OPCODE_WRITE == 1
OPCODE_EWEN == 0
SUBCODE_EWEN == 3
SUBCODE_ERAL == 2
SUBCODE_EWDS == 0

NONE == 0
EEPROM_READ == 1
EEPROM_ERASE == 2
EEPROM_WRITE == 3

EEPROM_X8 == 1
EEPROM_X16 == 2

EXIT_SUCCESS == 0
EXIT_FAILURE == 1

(***************************************************************************)
(* C integer arithmetic.                                                   *)
(***************************************************************************)
RECURSIVE BitAnd(_, _)
BitAnd(a, b) ==
    IF a = 0 \/ b = 0 THEN 0
    ELSE (a % 2) * (b % 2) + 2 * BitAnd(a \div 2, b \div 2)

RECURSIVE BitOr(_, _)
BitOr(a, b) ==
    IF a = 0 THEN b
    ELSE IF b = 0 THEN a
    ELSE (IF a % 2 = 1 \/ b % 2 = 1 THEN 1 ELSE 0) + 2 * BitOr(a \div 2, b \div 2)

Shl(a, n) == a * (2 ^ n)
Shr(a, n) == a \div (2 ^ n)
U8(x) == x % 256
U16(x) == x % 65536

EEPROM_ORG == BitOr(EEPROM_X8, EEPROM_X16)

\* What a function that falls off its end without a return statement hands its
\* caller: any int (negative, zero, positive).
Undef == {-1, 0, 1}

\* A malloc'ed byte nobody has stored to yet.
Uninit == -1

\* What a load from past the end of a buffer may deliver.
Junk == {0, 255}

(***************************************************************************)
(* The catalog.                                                            *)
(***************************************************************************)
eeprom_types_list == <<
    [name |-> "93c66", size |-> 512, addr_bits |-> 9, flags |-> EEPROM_ORG, is_x16 |-> FALSE],
    [name |-> "93c56", size |-> 256, addr_bits |-> 8, flags |-> EEPROM_ORG, is_x16 |-> FALSE],
    [name |-> "93c46", size |-> 128, addr_bits |-> 7, flags |-> EEPROM_ORG, is_x16 |-> FALSE],
    [name |-> "93c06", size |-> 32,  addr_bits |-> 6, flags |-> EEPROM_X16, is_x16 |-> FALSE],
    [name |-> "",      size |-> 0,   addr_bits |-> 0, flags |-> 0,          is_x16 |-> FALSE] >>

\* strcasecmp folds case; over the names the model passes, only 'C' has two cases.
tolower(s) ==
    CASE s = "93C66" -> "93c66"
      [] s = "93C56" -> "93c56"
      [] s = "93C46" -> "93c46"
      [] s = "93C06" -> "93c06"
      [] s = "93C86" -> "93c86"
      [] OTHER -> s

strcasecmp(a, b) == IF tolower(a) = tolower(b) THEN 0 ELSE 1

\* Index into eeprom_types_list of the entry found, 0 for NULL.
RECURSIVE eeprom_find_from(_, _)
eeprom_find_from(k, type) ==
    IF eeprom_types_list[k].size = 0 THEN 0
    ELSE IF strcasecmp(eeprom_types_list[k].name, type) = 0 THEN k
    ELSE eeprom_find_from(k + 1, type)

eeprom_find(type) == eeprom_find_from(1, type)

(***************************************************************************)
(* Profile finalization.                                                   *)
(***************************************************************************)
\* The catalog entry taken over without the x16 adjustment.
select_type_nodec(entry, x16) ==
    [entry EXCEPT !.is_x16 = x16]

\* main, lines 223-227: the catalog entry becomes the profile; x16 mode uses
\* one less address bit than x8.
select_type(entry, x16) ==
    [entry EXCEPT !.is_x16 = x16,
                  !.addr_bits = IF x16 THEN U8(@ - 1) ELSE @]

\* sanitize_input without its x8 check.
sanitize_input_nox8(e) ==
    IF e.size = 0
    THEN [rets |-> {-1}, msg |-> "EEPROM cannot be zero!"]
    ELSE IF BitAnd(e.size, e.size - 1) # 0
    THEN [rets |-> {-1}, msg |-> "Given EEPROM size is not a power of 2!"]
    ELSE IF e.addr_bits < 5 \/ e.addr_bits > 9
    THEN [rets |-> {-1}, msg |-> "addr-bits Should be between be 5 and 9"]
    ELSE IF e.is_x16 /\ BitAnd(e.flags, EEPROM_X16) = 0
    THEN [rets |-> {-1}, msg |-> "Selected EEPROM does not support x16 mode."]
    ELSE [rets |-> Undef, msg |-> ""]

\* The result of sanitize_input: the values it may return and what it prints.
\* The function has no return statement on the path where every check passes.
sanitize_input(e) ==
    IF e.size = 0
    THEN [rets |-> {-1}, msg |-> "EEPROM cannot be zero!"]
    ELSE IF BitAnd(e.size, e.size - 1) # 0
    THEN [rets |-> {-1}, msg |-> "Given EEPROM size is not a power of 2!"]
    ELSE IF e.addr_bits < 5 \/ e.addr_bits > 9
    THEN [rets |-> {-1}, msg |-> "addr-bits Should be between be 5 and 9"]
    ELSE IF e.is_x16 /\ BitAnd(e.flags, EEPROM_X16) = 0
    THEN [rets |-> {-1}, msg |-> "Selected EEPROM does not support x16 mode."]
    ELSE IF ~e.is_x16 /\ BitAnd(e.flags, EEPROM_X8) = 0
    THEN [rets |-> {-1}, msg |-> "Selected EEPROM does not support x8 mode."]
    ELSE [rets |-> Undef, msg |-> ""]

(***************************************************************************)
(* The header encoder and the headers the primitives build.                *)
(***************************************************************************)
\* prepare_cmd with the shifted opcode kept in 8 bits.
prepare_cmd_shift8(addr_bits, cmd, addr, dummy_bits) ==
    LET bits    == U16(addr_bits + dummy_bits)
        cmd1    == U8(BitOr(cmd, Shl(1, 2)))
        addr1   == U16(BitAnd(addr, Shl(1, bits) - 1))
        command == U16(BitOr(U8(Shl(cmd1, bits)), addr1))
    IN  [txbuf |-> <<U8(Shr(command, 8)), U8(command)>>, len |-> 2, bits_per_word |-> 8]

\* prepare_cmd sending one byte when the header bits fit in it.
prepare_cmd_packed(addr_bits, cmd, addr, dummy_bits) ==
    LET bits    == U16(addr_bits + dummy_bits)
        cmd1    == U8(BitOr(cmd, Shl(1, 2)))
        addr1   == U16(BitAnd(addr, Shl(1, bits) - 1))
        command == U16(BitOr(Shl(cmd1, bits), addr1))
    IN  [txbuf |-> <<U8(Shr(command, 8)), U8(command)>>,
         len |-> IF 3 + bits <= 8 THEN 1 ELSE 2, bits_per_word |-> 8]

prepare_cmd(addr_bits, cmd, addr, dummy_bits) ==
    LET bits    == U16(addr_bits + dummy_bits)
        cmd1    == U8(BitOr(cmd, Shl(1, 2)))
        addr1   == U16(BitAnd(addr, Shl(1, bits) - 1))
        command == U16(BitOr(Shl(cmd1, bits), addr1))
    IN  [txbuf |-> <<U8(Shr(command, 8)), U8(command)>>, len |-> 2, bits_per_word |-> 8]

\* read_data, line 303
read_data_hdr(addr_bits, addr) == prepare_cmd(addr_bits, OPCODE_READ, addr, 1)

\* write_data, line 335
write_data_hdr(addr_bits, addr) == prepare_cmd(addr_bits, OPCODE_WRITE, addr, 0)

\* send_command with the sub-opcode shifted one place too far.
send_command_hdr_shift1(addr_bits, op, subop) ==
    LET subcode == U16(Shl(subop, addr_bits - 1))
    IN  prepare_cmd(addr_bits, op, subcode, 0)

\* send_command, lines 349-353
send_command_hdr(addr_bits, op, subop) ==
    LET subcode == U16(Shl(subop, addr_bits - 2))
    IN  prepare_cmd(addr_bits, op, subcode, 0)

\* The step of the read loop (eeprom_read, lines 380-383).
read_step(e, burst_read) ==
    IF burst_read THEN e.size ELSE IF e.is_x16 THEN 2 ELSE 1

\* The step of the write loop (eeprom_program_array, line 411).
program_step(e) == IF e.is_x16 THEN 2 ELSE 1

(***************************************************************************)
(* The device: a 93Cxx part organised as the profile says, which decodes   *)
(* every header bit by bit, most significant bit first: leading zeroes,    *)
(* the start bit, two opcode bits, addr_bits address bits, and for READ    *)
(* one dummy clock before the data.                                        *)
(***************************************************************************)
RECURSIVE HighBit(_)
HighBit(v) == IF v <= 1 THEN 0 ELSE 1 + HighBit(v \div 2)

DevDecode(txbuf, addr_bits) ==
    LET v  == txbuf[1] * 256 + txbuf[2]
        s  == HighBit(v)
        ok == v > 0 /\ s >= 2 + addr_bits
    IN  [ok    |-> ok,
         op    |-> IF ok THEN Shr(v, s - 2) % 4 ELSE 0,
         addr  |-> IF ok THEN Shr(v, s - 2 - addr_bits) % (2 ^ addr_bits) ELSE 0,
         extra |-> IF ok THEN s - 2 - addr_bits ELSE 0]

DevWordSize(e) == IF e.is_x16 THEN 2 ELSE 1

DevLen(e) == IF e.size < DevWordSize(e) THEN DevWordSize(e) ELSE e.size

Pattern(p, k) ==
    CASE p = "ramp"  -> k % 256
      [] p = "AA"    -> 170
      [] p = "blank" -> 255
      [] OTHER       -> 0

Fill(p, n) == [k \in 0 .. n - 1 |-> Pattern(p, k)]

\* The bytes a READ delivers: the array from the decoded address on, with
\* the address counter incrementing and wrapping at the end of the array.
DevRead(m, n, e, hdr, len) ==
    LET d == DevDecode(hdr.txbuf, e.addr_bits)
    IN  [k \in 0 .. len - 1 |->
            IF d.ok /\ d.op = OPCODE_READ /\ d.extra = 1
            THEN m[(d.addr * DevWordSize(e) + k) % n]
            ELSE 0]

\* The array after a WRITE of one word.
DevWrite(m, n, e, hdr, data, enabled) ==
    LET d == DevDecode(hdr.txbuf, e.addr_bits)
        base == (d.addr * DevWordSize(e)) % n
    IN  IF enabled /\ d.ok /\ d.op = OPCODE_WRITE /\ d.extra = 0
        THEN [k \in DOMAIN m |->
                IF k >= base /\ k < base + DevWordSize(e) THEN data[k - base] ELSE m[k]]
        ELSE m

\* The two highest address bits of a control command.
DevSubcode(hdr, e) ==
    LET d == DevDecode(hdr.txbuf, e.addr_bits)
    IN  IF d.ok /\ d.op = OPCODE_EWEN /\ d.extra = 0
        THEN Shr(d.addr, e.addr_bits - 2)
        ELSE -1

DevControlMem(m, e, hdr, enabled) ==
    IF DevSubcode(hdr, e) = SUBCODE_ERAL /\ enabled
    THEN [k \in DOMAIN m |-> 255]
    ELSE m

DevControlWen(e, hdr, enabled) ==
    CASE DevSubcode(hdr, e) = SUBCODE_EWEN -> TRUE
      [] DevSubcode(hdr, e) = SUBCODE_EWDS -> FALSE
      [] OTHER -> enabled

\* The byte a status poll reads: the data line is low during the write cycle.
DevStatus(b) == IF b = 0 THEN 255 ELSE 0

(***************************************************************************)
(* The command lines the model runs the program with.                      *)
(***************************************************************************)
TypeArgs == {"93c66", "93C56", "93c46", "93c06", "93c86"}

\* Values given to --addr-bits: below, inside and above [5,9], and one that
\* does not fit the uint8_t field.
AddrBitsArgs == {4, 9, 10, 261}

\* Values given to --eeprom-size: zero, powers of two, others, and two that
\* do not fit the uint16_t field.
SizeArgs == {0, 1, 2, 8, 12, 65536, 65544}

NoOpt == [given |-> FALSE, val |-> 0]

Opt(S) == {NoOpt} \cup {[given |-> TRUE, val |-> v] : v \in S}

TypeOpts == {[given |-> FALSE, val |-> ""]} \cup {[given |-> TRUE, val |-> v] : v \in TypeArgs}

\* --burst-read is given with --read only.
ArgSets == {a \in [t : TypeOpts, b : Opt(AddrBitsArgs), s : Opt(SizeArgs),
                   x16 : BOOLEAN, burst : BOOLEAN,
                   action : {NONE, EEPROM_READ, EEPROM_ERASE, EEPROM_WRITE}] :
              a.burst => a.action = EEPROM_READ}

DevPatterns == {"blank", "ramp"}
ImagePatterns == {"AA", "ramp"}

NoXfer == [kind |-> "none", ok |-> TRUE, txbuf |-> <<>>, len |-> 0, data |-> <<>>,
           cmd |-> 0, addr |-> 0, dummy |-> 0, dlen |-> 0]

NoPrev == [action |-> NONE, burst |-> FALSE, data |-> <<>>]

(***************************************************************************)
(* main                                                                    *)
(***************************************************************************)
Init ==
    /\ pc = "start"
    /\ args = [t |-> [given |-> FALSE, val |-> ""], b |-> NoOpt, s |-> NoOpt, x16 |-> FALSE,
               burst |-> FALSE, action |-> NONE]
    /\ main = [eeprom_type |-> "", type_specified |-> FALSE,
               parameter_specified |-> FALSE, x16 |-> FALSE, burst |-> FALSE]
    /\ cfg = [action |-> NONE, burst_read |-> FALSE]
    /\ eeprom = [name |-> "custom", size |-> 256, addr_bits |-> 8,
                 flags |-> EEPROM_ORG, is_x16 |-> FALSE]
    /\ ret = 0
    /\ exit = 0
    /\ msg = ""
    /\ i = 0
    /\ buf = <<>>
    /\ oob = FALSE
    /\ file = <<>>
    /\ done = FALSE
    /\ xfer = NoXfer
    /\ nxfer = 0
    /\ mem = <<>>
    /\ wen = FALSE
    /\ busy = 0
    /\ prev = NoPrev

\* main, lines 124-206: the defaults, the option loop, x16 and burst.
ParseArgs(a) ==
    /\ args' = a
    /\ main' = [eeprom_type |-> a.t.val, type_specified |-> a.t.given,
                parameter_specified |-> a.b.given \/ a.s.given,
                x16 |-> a.x16, burst |-> a.burst]
    /\ cfg' = [action |-> a.action, burst_read |-> a.burst]
    /\ eeprom' = [name |-> "custom",
                  size |-> IF a.s.given THEN U16(a.s.val) ELSE 256,
                  addr_bits |-> IF a.b.given THEN U8(a.b.val) ELSE 8,
                  flags |-> EEPROM_ORG,
                  is_x16 |-> a.x16]
    /\ pc' = "check"
    /\ ret' = 0
    /\ exit' = 0
    /\ msg' = ""
    /\ i' = 0
    /\ buf' = <<>>
    /\ oob' = FALSE
    /\ file' = <<>>
    /\ done' = FALSE
    /\ xfer' = NoXfer
    /\ nxfer' = 0

\* The first invocation of the program.
ParseOptions ==
    /\ pc = "start"
    /\ \E a \in ArgSets : ParseArgs(a)
    /\ UNCHANGED <<mem, wen, busy, prev>>

\* The program invoked once more on the same device with the same profile
\* options, to read the array, after an invocation that wrote or read all of it.
Reinvoke ==
    /\ pc = "exit"
    /\ done
    /\ prev.action = NONE
    /\ cfg.action \in {EEPROM_READ, EEPROM_WRITE}
    /\ prev' = [action |-> cfg.action, burst |-> cfg.burst_read,
                data |-> file]
    /\ \E b \in BOOLEAN : ParseArgs([args EXCEPT !.action = EEPROM_READ, !.burst = b])
    /\ UNCHANGED <<mem, wen, busy>>

\* What a return from main leaves behind.
Return(code, text) ==
    /\ pc' = "exit"
    /\ exit' = code
    /\ msg' = text

\* main, lines 208-212
CheckConflict ==
    /\ pc = "check"
    /\ IF main.type_specified /\ main.parameter_specified
       THEN Return(EXIT_FAILURE, "Please specify either EEPROM type, or EEPROM parameters, but not both")
       ELSE pc' = "lookup" /\ UNCHANGED <<exit, msg>>
    /\ UNCHANGED <<args, main, cfg, eeprom, ret, i, buf, oob, file, done,
                   xfer, nxfer, mem, wen, busy, prev>>

\* main, lines 214-228
LookupType ==
    /\ pc = "lookup"
    /\ IF main.type_specified
       THEN LET k == eeprom_find(main.eeprom_type)
            IN  IF k = 0
                THEN Return(EXIT_FAILURE, "Unknown EEPROM type") /\ UNCHANGED eeprom
                ELSE /\ eeprom' = select_type(eeprom_types_list[k], main.x16)
                     /\ pc' = "sanitize"
                     /\ UNCHANGED <<exit, msg>>
       ELSE pc' = "sanitize" /\ UNCHANGED <<eeprom, exit, msg>>
    /\ UNCHANGED <<args, main, cfg, ret, i, buf, oob, file, done,
                   xfer, nxfer, mem, wen, busy, prev>>

\* main, line 230: the call of sanitize_input.
Sanitize ==
    /\ pc = "sanitize"
    /\ LET r == sanitize_input(eeprom)
       IN  /\ ret' \in r.rets
           /\ msg' = r.msg
    /\ pc' = "sanitized"
    /\ UNCHANGED <<args, main, cfg, eeprom, exit, i, buf, oob, file, done,
                   xfer, nxfer, mem, wen, busy, prev>>

\* main, lines 230-231: a negative result ends the program.
SanitizeReject ==
    /\ pc = "sanitized"
    /\ ret < 0
    /\ pc' = "exit"
    /\ exit' = EXIT_FAILURE
    /\ UNCHANGED <<args, main, cfg, eeprom, ret, msg, i, buf, oob, file, done,
                   xfer, nxfer, mem, wen, busy, prev>>

\* main line 233 and eeprom_run: init_spi_master, then the action's function.
\* The device on the bus holds its content from before the first invocation.
EepromRun ==
    /\ pc = "sanitized"
    /\ ret >= 0
    /\ \E opened \in BOOLEAN, p \in DevPatterns :
         IF ~opened
         THEN Return(EXIT_FAILURE, "Could not open SPI device.") /\ UNCHANGED mem
         ELSE /\ mem' = IF prev.action = NONE THEN Fill(p, DevLen(eeprom)) ELSE mem
              /\ IF cfg.action = EEPROM_READ
                 THEN pc' = "read" /\ UNCHANGED <<exit, msg>>
                 ELSE IF cfg.action = EEPROM_WRITE
                 THEN pc' = "write" /\ UNCHANGED <<exit, msg>>
                 ELSE IF cfg.action = EEPROM_ERASE
                 THEN pc' = "erase" /\ UNCHANGED <<exit, msg>>
                 ELSE Return(0, "Not implemented")
    /\ UNCHANGED <<args, main, cfg, eeprom, ret, i, buf, oob, file, done,
                   xfer, nxfer, wen, busy, prev>>

(***************************************************************************)
(* Buffers.                                                                *)
(***************************************************************************)
\* buf after a data phase stored len bytes at buf + off.
StoreBuf(b, off, data, len) ==
    [k \in DOMAIN b |-> IF k >= off /\ k < off + len THEN data[k - off] ELSE b[k]]

\* The len bytes a data phase fetches from data + off; j stands for the bytes
\* past the end of the buffer.
LoadBuf(b, n, off, len, j) ==
    [k \in 0 .. len - 1 |-> IF off + k < n THEN b[off + k] ELSE j]

\* The SPI message of a primitive: the header prepare_cmd built from cmd,
\* addr and dummy, and a data phase of dlen bytes.
Header(kind, success, hdr, cmd, addr, dummy, dlen) ==
    [kind |-> kind, ok |-> success, txbuf |-> hdr.txbuf, len |-> hdr.len,
     data |-> <<>>, cmd |-> cmd, addr |-> addr, dummy |-> dummy, dlen |-> dlen]

(***************************************************************************)
(* eeprom_read                                                             *)
(***************************************************************************)
\* eeprom_read, lines 380-391: fopen and malloc.
ReadOpen ==
    /\ pc = "read"
    /\ \E opened \in BOOLEAN :
         IF ~opened
         THEN Return(EXIT_FAILURE, "Could not open output file.") /\ UNCHANGED <<buf, i, file>>
         ELSE /\ file' = <<>>
              /\ buf' = [k \in 0 .. eeprom.size - 1 |-> Uninit]
              /\ i' = 0
              /\ pc' = "read_loop"
              /\ UNCHANGED <<exit, msg>>
    /\ UNCHANGED <<args, main, cfg, eeprom, ret, oob, done,
                   xfer, nxfer, mem, wen, busy, prev>>

\* eeprom_read, lines 393-399: one pass of the loop, a read_data call.
ReadData ==
    /\ pc = "read_loop"
    /\ i < eeprom.size
    /\ LET step == read_step(eeprom, cfg.burst_read)
           addr == U16(i)
           hdr  == read_data_hdr(eeprom.addr_bits, addr)
       IN  \E success \in BOOLEAN :
             /\ xfer' = Header("read", success, hdr, OPCODE_READ, addr, 1, step)
             /\ nxfer' = nxfer + 1
             /\ IF success
                THEN /\ ret' = hdr.len + step
                     /\ buf' = StoreBuf(buf, i, DevRead(mem, DevLen(eeprom), eeprom, hdr, step), step)
                     /\ oob' = (oob \/ i + step > eeprom.size)
                     /\ i' = i + step
                     /\ UNCHANGED <<pc, exit, msg>>
                ELSE /\ ret' = -1
                     /\ Return(EXIT_FAILURE, "Could not execute SPI transaction (eeprom read)")
                     /\ UNCHANGED <<buf, oob, i>>
    /\ UNCHANGED <<args, main, cfg, eeprom, file, done,
                   mem, wen, busy, prev>>

\* eeprom_read, lines 401-404: fwrite, and the end of a function that
\* returns no value.
ReadFinish ==
    /\ pc = "read_loop"
    /\ i >= eeprom.size
    /\ file' = buf
    /\ done' = TRUE
    /\ pc' = "exit"
    /\ exit' \in Undef
    /\ UNCHANGED <<args, main, cfg, eeprom, ret, msg, i, buf, oob,
                   xfer, nxfer, mem, wen, busy, prev>>

(***************************************************************************)
(* eeprom_write and eeprom_program_array                                   *)
(***************************************************************************)
\* eeprom_write with enable_write issued before the file is measured.
WriteOpenEnableFirst ==
    /\ pc = "write"
    /\ \E opened \in BOOLEAN, size \in {eeprom.size, eeprom.size + 1},
          p \in ImagePatterns :
         IF ~opened
         THEN Return(EXIT_FAILURE, "Could not open input file.")
              /\ UNCHANGED <<buf, file, xfer, nxfer>>
         ELSE /\ file' = Fill(p, size)
              /\ xfer' = Header("command", TRUE,
                                send_command_hdr(eeprom.addr_bits, OPCODE_EWEN, SUBCODE_EWEN),
                                OPCODE_EWEN, SUBCODE_EWEN, 0, 0)
              /\ nxfer' = nxfer + 1
              /\ IF size # eeprom.size
                 THEN Return(EXIT_FAILURE, "File size does not match EEPROM size!")
                      /\ UNCHANGED buf
                 ELSE /\ buf' = Fill(p, eeprom.size)
                      /\ pc' = "program"
                      /\ UNCHANGED <<exit, msg>>
    /\ UNCHANGED <<args, main, cfg, eeprom, ret, i, oob, done, mem, wen, busy, prev>>

\* eeprom_write, lines 435-460: the input file is opened, measured and read.
WriteOpen ==
    /\ pc = "write"
    /\ \E opened \in BOOLEAN, size \in {eeprom.size, eeprom.size + 1},
          p \in ImagePatterns, num_bytes_in \in {eeprom.size, 0} :
         IF ~opened
         THEN Return(EXIT_FAILURE, "Could not open input file.") /\ UNCHANGED <<buf, file>>
         ELSE /\ file' = Fill(p, size)
              /\ IF size # eeprom.size
                 THEN Return(EXIT_FAILURE, "File size does not match EEPROM size!")
                      /\ UNCHANGED buf
                 ELSE IF num_bytes_in # eeprom.size
                 THEN Return(EXIT_FAILURE, "Failed to read contents")
                      /\ UNCHANGED buf
                 ELSE /\ buf' = Fill(p, eeprom.size)
                      /\ pc' = "enable"
                      /\ UNCHANGED <<exit, msg>>
    /\ UNCHANGED <<args, main, cfg, eeprom, ret, i, oob, done,
                   xfer, nxfer, mem, wen, busy, prev>>

\* enable_write with its result dropped: the loop starts whatever it returned.
WriteEnableUnchecked ==
    /\ pc = "enable"
    /\ LET hdr == send_command_hdr(eeprom.addr_bits, OPCODE_EWEN, SUBCODE_EWEN)
       IN  \E success \in BOOLEAN :
             /\ xfer' = Header("command", success, hdr, OPCODE_EWEN, SUBCODE_EWEN, 0, 0)
             /\ nxfer' = nxfer + 1
             /\ ret' = IF success THEN hdr.len ELSE -1
             /\ wen' = IF success THEN DevControlWen(eeprom, hdr, wen) ELSE wen
             /\ mem' = IF success THEN DevControlMem(mem, eeprom, hdr, wen) ELSE mem
             /\ i' = 0
             /\ pc' = "program"
    /\ UNCHANGED <<args, main, cfg, eeprom, exit, msg, buf, oob, file, done,
                   busy, prev>>

\* eeprom_write, lines 462-467: enable_write.
WriteEnable ==
    /\ pc = "enable"
    /\ LET hdr == send_command_hdr(eeprom.addr_bits, OPCODE_EWEN, SUBCODE_EWEN)
       IN  \E success \in BOOLEAN :
             /\ xfer' = Header("command", success, hdr, OPCODE_EWEN, SUBCODE_EWEN, 0, 0)
             /\ nxfer' = nxfer + 1
             /\ IF success
                THEN /\ ret' = hdr.len
                     /\ wen' = DevControlWen(eeprom, hdr, wen)
                     /\ mem' = DevControlMem(mem, eeprom, hdr, wen)
                     /\ i' = 0
                     /\ pc' = "program"
                     /\ UNCHANGED <<exit, msg>>
                ELSE /\ ret' = -1
                     /\ Return(EXIT_FAILURE, "Could not execute SPI transaction (enable write)")
                     /\ UNCHANGED <<wen, mem, i>>
    /\ UNCHANGED <<args, main, cfg, eeprom, buf, oob, file, done,
                   busy, prev>>

\* The address argument carrying the byte offset instead of the word index.
program_addr_offset(off, step) == U16(off)

\* eeprom_program_array, line 415: the uint16_t address argument of
\* write_data for the word at byte offset off, i / step.
program_addr(off, step) == U16(off \div step)

\* The data phase of write_data (line 337: tx_buf = buf, len = len): the
\* fetched bytes in the order they go out.
TxData(bytes, len) == [k \in 1 .. len |-> bytes[k - 1]]

\* eeprom_program_array, lines 413-419: one word goes out with write_data.
\* A failure returns EXIT_FAILURE to eeprom_write, which drops it and ends
\* without returning a value.
WriteData ==
    /\ pc = "program"
    /\ i < eeprom.size
    /\ LET step == program_step(eeprom)
           addr == program_addr(i, step)
           hdr  == write_data_hdr(eeprom.addr_bits, addr)
       IN  \E success \in BOOLEAN, cycle \in 0 .. MaxBusy,
              j \in IF i + step > eeprom.size THEN Junk ELSE {0} :
             /\ xfer' = [Header("write", success, hdr, OPCODE_WRITE, addr, 0, step)
                          EXCEPT !.data = TxData(LoadBuf(buf, eeprom.size, i, step, j), step)]
             /\ nxfer' = nxfer + 1
             /\ oob' = (oob \/ i + step > eeprom.size)
             /\ IF success
                THEN /\ ret' = hdr.len + step
                     /\ mem' = DevWrite(mem, DevLen(eeprom), eeprom, hdr,
                                        LoadBuf(buf, eeprom.size, i, step, j), wen)
                     /\ busy' = cycle
                     /\ pc' = "wait"
                     /\ UNCHANGED <<exit, msg>>
                ELSE /\ ret' = -1
                     /\ pc' = "exit"
                     /\ exit' \in Undef
                     /\ msg' = "Could not execute SPI transaction (eeprom write)"
                     /\ UNCHANGED <<mem, busy>>
    /\ UNCHANGED <<args, main, cfg, eeprom, i, buf, file, done,
                   wen, prev>>

\* The wait loop leaving on whatever byte read_status returns.
ReadStatusAnyByte ==
    /\ pc = "wait"
    /\ \E success \in BOOLEAN :
         /\ xfer' = [kind |-> "status", ok |-> success, txbuf |-> <<>>, data |-> <<>>,
                     len |-> 0, cmd |-> 0, addr |-> 0, dummy |-> 0, dlen |-> 1]
         /\ ret' = IF success THEN DevStatus(busy) ELSE 0
         /\ busy' = IF success /\ busy > 0 THEN busy - 1 ELSE busy
         /\ pc' = "program"
         /\ i' = i + program_step(eeprom)
    /\ UNCHANGED <<args, main, cfg, eeprom, exit, msg, buf, oob, file, done,
                   nxfer, mem, wen, prev>>

\* eeprom_program_array, lines 421-422: one read_status call of the wait
\* loop.  read_status drops the result of ioctl and returns its status
\* byte, which it initialised to 0.
ReadStatus ==
    /\ pc = "wait"
    /\ \E success \in BOOLEAN :
         /\ LET status == IF success THEN DevStatus(busy) ELSE 0
            IN  /\ xfer' = [kind |-> "status", ok |-> success, txbuf |-> <<>>, data |-> <<>>,
                            len |-> 0, cmd |-> 0, addr |-> 0, dummy |-> 0, dlen |-> 1]
                /\ ret' = status
                /\ busy' = IF success /\ busy > 0 THEN busy - 1 ELSE busy
                /\ IF status # 255
                   THEN UNCHANGED <<pc, i>>
                   ELSE pc' = "program" /\ i' = i + program_step(eeprom)
    /\ UNCHANGED <<args, main, cfg, eeprom, exit, msg, buf, oob, file, done,
                   nxfer, mem, wen, prev>>

\* The end of the write with diable_write called after the loop.
ProgramDoneDisable ==
    /\ pc = "program"
    /\ i >= eeprom.size
    /\ LET hdr == send_command_hdr(eeprom.addr_bits, OPCODE_EWEN, SUBCODE_EWDS)
       IN  /\ xfer' = Header("command", TRUE, hdr, OPCODE_EWEN, SUBCODE_EWDS, 0, 0)
           /\ nxfer' = nxfer + 1
           /\ ret' = hdr.len
           /\ wen' = DevControlWen(eeprom, hdr, wen)
    /\ done' = TRUE
    /\ pc' = "exit"
    /\ exit' \in Undef
    /\ UNCHANGED <<args, main, cfg, eeprom, msg, i, buf, oob, file,
                   mem, busy, prev>>

\* The loop of eeprom_program_array ends; neither it nor eeprom_write
\* returns a value.
ProgramDone ==
    /\ pc = "program"
    /\ i >= eeprom.size
    /\ done' = TRUE
    /\ pc' = "exit"
    /\ exit' \in Undef
    /\ UNCHANGED <<args, main, cfg, eeprom, ret, msg, i, buf, oob, file,
                   xfer, nxfer, mem, wen, busy, prev>>

(***************************************************************************)
(* eeprom_erase                                                            *)
(***************************************************************************)
\* enable_write with its result dropped: erase_all follows whatever it returned.
EraseEnableUnchecked ==
    /\ pc = "erase"
    /\ LET hdr == send_command_hdr(eeprom.addr_bits, OPCODE_EWEN, SUBCODE_EWEN)
       IN  \E success \in BOOLEAN :
             /\ xfer' = Header("command", success, hdr, OPCODE_EWEN, SUBCODE_EWEN, 0, 0)
             /\ nxfer' = nxfer + 1
             /\ ret' = IF success THEN hdr.len ELSE -1
             /\ wen' = IF success THEN DevControlWen(eeprom, hdr, wen) ELSE wen
             /\ mem' = IF success THEN DevControlMem(mem, eeprom, hdr, wen) ELSE mem
             /\ pc' = "erase_all"
    /\ UNCHANGED <<args, main, cfg, eeprom, exit, msg, i, buf, oob, file, done,
                   busy, prev>>

\* eeprom_erase, lines 477-481: enable_write.
EraseEnable ==
    /\ pc = "erase"
    /\ LET hdr == send_command_hdr(eeprom.addr_bits, OPCODE_EWEN, SUBCODE_EWEN)
       IN  \E success \in BOOLEAN :
             /\ xfer' = Header("command", success, hdr, OPCODE_EWEN, SUBCODE_EWEN, 0, 0)
             /\ nxfer' = nxfer + 1
             /\ IF success
                THEN /\ ret' = hdr.len
                     /\ wen' = DevControlWen(eeprom, hdr, wen)
                     /\ mem' = DevControlMem(mem, eeprom, hdr, wen)
                     /\ pc' = "erase_all"
                     /\ UNCHANGED <<exit, msg>>
                ELSE /\ ret' = -1
                     /\ Return(EXIT_FAILURE, "Could not execute SPI transaction (enable write)")
                     /\ UNCHANGED <<wen, mem>>
    /\ UNCHANGED <<args, main, cfg, eeprom, i, buf, oob, file, done,
                   busy, prev>>

\* eeprom_erase, lines 483-488: erase_all, and the end of a function that
\* returns no value.
EraseAll ==
    /\ pc = "erase_all"
    /\ LET hdr == send_command_hdr(eeprom.addr_bits, OPCODE_EWEN, SUBCODE_ERAL)
       IN  \E success \in BOOLEAN :
             /\ xfer' = Header("command", success, hdr, OPCODE_EWEN, SUBCODE_ERAL, 0, 0)
             /\ nxfer' = nxfer + 1
             /\ pc' = "exit"
             /\ IF success
                THEN /\ ret' = hdr.len
                     /\ wen' = DevControlWen(eeprom, hdr, wen)
                     /\ mem' = DevControlMem(mem, eeprom, hdr, wen)
                     /\ done' = TRUE
                     /\ exit' \in Undef
                     /\ UNCHANGED msg
                ELSE /\ ret' = -1
                     /\ exit' = EXIT_FAILURE
                     /\ msg' = "Could not execute SPI transaction (erase all)"
                     /\ UNCHANGED <<wen, mem, done>>
    /\ UNCHANGED <<args, main, cfg, eeprom, i, buf, oob, file,
                   busy, prev>>

Next ==
    \/ ParseOptions
    \/ CheckConflict
    \/ LookupType
    \/ Sanitize
    \/ SanitizeReject
    \/ EepromRun
    \/ ReadOpen
    \/ ReadData
    \/ ReadFinish
    \/ WriteOpen
    \/ WriteEnable
    \/ WriteData
    \/ ReadStatus
    \/ ProgramDone
    \/ EraseEnable
    \/ EraseAll
    \/ Reinvoke

Spec == Init /\ [][Next]_vars

(***************************************************************************)
(* The encoder on its own: prepare_cmd and send_command applied to         *)
(* arguments drawn from their whole range.                                 *)
(***************************************************************************)
EncAddrs ==
    (0 .. MaxEncAddr)
        \cup {Shl(1, k) - 1 : k \in 0 .. 16}
        \cup {Shl(1, k) : k \in 0 .. 15}
        \cup {21845, 43690}

EncInit ==
    /\ pc = "enc"
    /\ args = [t |-> [given |-> FALSE, val |-> ""], b |-> NoOpt, s |-> NoOpt,
               x16 |-> FALSE, burst |-> FALSE, action |-> NONE]
    /\ main = [eeprom_type |-> "", type_specified |-> FALSE,
               parameter_specified |-> FALSE, x16 |-> FALSE, burst |-> FALSE]
    /\ cfg = [action |-> NONE, burst_read |-> FALSE]
    /\ \E ab \in 0 .. MaxEncBits :
         eeprom = [name |-> "custom", size |-> 256, addr_bits |-> ab,
                   flags |-> EEPROM_ORG, is_x16 |-> FALSE]
    /\ ret = 0
    /\ exit = 0
    /\ msg = ""
    /\ i = 0
    /\ buf = <<>>
    /\ oob = FALSE
    /\ file = <<>>
    /\ done = FALSE
    /\ xfer = NoXfer
    /\ nxfer = 0
    /\ mem = <<>>
    /\ wen = FALSE
    /\ busy = 0
    /\ prev = NoPrev

\* prepare_cmd called with any opcode, address and dummy-bit count.
EncPrepare ==
    /\ pc = "enc"
    /\ \E cmd \in 0 .. 3, addr \in EncAddrs, dummy_bits \in 0 .. MaxEncDummy :
         xfer' = Header("encode", TRUE,
                        prepare_cmd(eeprom.addr_bits, cmd, addr, dummy_bits),
                        cmd, addr, dummy_bits, 0)
    /\ pc' = "encoded"
    /\ UNCHANGED <<args, main, cfg, eeprom, ret, exit, msg, i, buf, oob, file,
                   done, nxfer, mem, wen, busy, prev>>

\* send_command called with any sub-opcode, on a profile that passed
\* sanitize_input.
EncSendCommand ==
    /\ pc = "enc"
    /\ eeprom.addr_bits >= 5
    /\ eeprom.addr_bits <= 9
    /\ \E subop \in 0 .. 3 :
         xfer' = Header("command", TRUE,
                        send_command_hdr(eeprom.addr_bits, OPCODE_EWEN, subop),
                        OPCODE_EWEN, subop, 0, 0)
    /\ pc' = "encoded"
    /\ UNCHANGED <<args, main, cfg, eeprom, ret, exit, msg, i, buf, oob, file,
                   done, nxfer, mem, wen, busy, prev>>

EncNext ==
    \/ EncPrepare
    \/ EncSendCommand

EncSpec == EncInit /\ [][EncNext]_vars

(***************************************************************************)
(* Properties.                                                             *)
(***************************************************************************)
\* The header on the bus, read as a big-endian 16-bit value.
HeaderValue == xfer.txbuf[1] * 256 + xfer.txbuf[2]

\* C1: for every 2-bit opcode, every 16-bit address and every addr_bits and
\* dummy_bits with bits = addr_bits + dummy_bits <= 13, prepare_cmd emits
\* exactly 2 bytes, and their big-endian value is
\* ((opcode | 0b100) << bits) | (address & ((1 << bits) - 1)), computed here in
\* unbounded integers: no bit is lost to 8-bit or 16-bit truncation.
C1_HeaderEncoding ==
    (xfer.kind = "encode" /\ eeprom.addr_bits + xfer.dummy <= 13) =>
        LET bits == eeprom.addr_bits + xfer.dummy
        IN  /\ xfer.len = 2
            /\ Len(xfer.txbuf) = 2
            /\ \A k \in 1 .. 2 : xfer.txbuf[k] \in 0 .. 255
            /\ HeaderValue = (4 + xfer.cmd) * (2 ^ bits) + (xfer.addr % (2 ^ bits))

\* C1 witness: 13 payload bits, opcode 3 and address 0xFFFF fill all 16 bits.
C1_Witness ==
    /\ xfer.kind = "encode"
    /\ eeprom.addr_bits + xfer.dummy = 13
    /\ xfer.cmd = 3
    /\ xfer.addr = 65535
    /\ xfer.txbuf = <<255, 255>>

\* C8: for every addr_bits in [5,9] and every subcode in {0b00, 0b10, 0b11},
\* the header send_command builds with opcode 0 and no dummy bit carries the
\* start marker, opcode 00, the subcode in the two highest bits of the
\* addr_bits-bit address field and zeros below; for addr_bits = 7 and subcode
\* 0b11 the address field is 0b11 << 5.
C8_SubcodePlacement ==
    (xfer.kind = "command" /\ xfer.addr \in {SUBCODE_EWDS, SUBCODE_ERAL, SUBCODE_EWEN}) =>
        LET ab    == eeprom.addr_bits
            field == HeaderValue % (2 ^ ab)
        IN  /\ xfer.len = 2
            /\ HeaderValue \div (2 ^ (ab + 2)) = 1
            /\ (HeaderValue \div (2 ^ ab)) % 4 = 0
            /\ field \div (2 ^ (ab - 2)) = xfer.addr
            /\ field % (2 ^ (ab - 2)) = 0
            /\ (ab = 7 /\ xfer.addr = 3) => field = 96

\* C8 witness: write-enable on a 7-bit profile.
C8_Witness ==
    /\ xfer.kind = "command"
    /\ pc = "encoded"
    /\ eeprom.addr_bits = 7
    /\ xfer.addr = SUBCODE_EWEN
    /\ HeaderValue % 128 = 96

\* An invocation ran its operation to the end.
Completed == pc = "exit" /\ done

\* C2: for every accepted profile, in 8-bit and in 16-bit mode, and every
\* image of size bytes, the write operation followed by the stepped read
\* operation against the device yields a file byte-identical to the image.
C2_RoundTrip ==
    (Completed /\ cfg.action = EEPROM_READ /\ ~cfg.burst_read
        /\ prev.action = EEPROM_WRITE) => file = prev.data

\* C3: for every accepted profile, in 8-bit and in 16-bit mode, and every
\* device content, the read operation with burst mode on and the read
\* operation with burst mode off produce the same size bytes from the same
\* device.
C3_BurstEqualsStepped ==
    (Completed /\ cfg.action = EEPROM_READ /\ prev.action = EEPROM_READ
        /\ prev.burst # cfg.burst_read) =>
            (file = prev.data /\ DOMAIN file = 0 .. eeprom.size - 1)

\* The profile is final: main is past its lookup of the type.
Finalized ==
    \/ pc \in {"sanitize", "sanitized", "read", "read_loop", "write", "enable",
               "program", "wait", "erase", "erase_all"}
    \/ pc = "exit" /\ xfer.kind # "none"

\* addr_bits of the profile as constructed: the catalog entry's, or the value
\* given with --addr-bits as the uint8_t field holds it, or the default.
ProfileBits ==
    IF args.t.given THEN eeprom_types_list[eeprom_find(args.t.val)].addr_bits
    ELSE IF args.b.given THEN U8(args.b.val)
    ELSE 8

\* The number of address bits of the header on the bus: what lies between
\* the opcode and the dummy bits.
HeaderWidth == HighBit(HeaderValue) - 2 - xfer.dummy

WidthIs(w) ==
    /\ eeprom.addr_bits = w
    /\ xfer.kind \in {"read", "write", "command"} => HeaderWidth = w

\* C4 as claimed: for every profile, from the catalog or from explicit
\* size/addr-bits, 16-bit mode makes the width used in all command headers
\* addr_bits - 1, 8-bit mode leaves it at addr_bits, at every point of the
\* operation.
C4_AllProfilesDecrement ==
    Finalized => WidthIs(ProfileBits - (IF args.x16 THEN 1 ELSE 0))

\* C4 as the code has it: for every profile built from the catalog by name,
\* 16-bit mode makes the width used in all command headers addr_bits - 1 and
\* 8-bit mode leaves it at addr_bits; for a profile built from explicit
\* size/addr-bits the width is the addr-bits given, in both modes; the width
\* stays the same at every point of the operation.
C4_EffectiveWidth ==
    Finalized =>
        WidthIs(IF args.t.given
                THEN ProfileBits - (IF args.x16 THEN 1 ELSE 0)
                ELSE ProfileBits)

\* C4 witness: 93c66 in x16 mode, in the middle of a read, with 8 address bits.
C4_Witness ==
    /\ args.t.given
    /\ args.t.val = "93c66"
    /\ args.x16
    /\ pc = "read_loop"
    /\ i > 0
    /\ xfer.kind = "read"
    /\ eeprom.addr_bits = 8
    /\ HeaderWidth = 8

IsPow2(n) == \E k \in 0 .. 30 : n = 2 ^ k

SuppliedSize == IF args.s.given THEN args.s.val ELSE 256

SuppliedBits == IF args.b.given THEN args.b.val ELSE 8

ModeSupported ==
    IF eeprom.is_x16 THEN BitAnd(eeprom.flags, EEPROM_X16) # 0
    ELSE BitAnd(eeprom.flags, EEPROM_X8) # 0

\* C5: for every size and addr-bits the user supplies, finalization rejects
\* the profile when the size is zero or not a power of two or addr-bits is
\* outside [5,9], and reports success (a non-negative result) when the size
\* is a nonzero power of two, addr-bits is in [5,9] and the mode is supported.
C5_GeometryValidation ==
    (pc = "sanitized" /\ ~args.t.given) =>
        /\ (~IsPow2(SuppliedSize) \/ SuppliedBits < 5 \/ SuppliedBits > 9) => ret < 0
        /\ (IsPow2(SuppliedSize) /\ SuppliedBits >= 5 /\ SuppliedBits <= 9
              /\ ModeSupported) => ret >= 0

UnsupportedModeMsgs ==
    {"Selected EEPROM does not support x16 mode.",
     "Selected EEPROM does not support x8 mode."}

InvalidGeometryMsgs ==
    {"EEPROM cannot be zero!",
     "Given EEPROM size is not a power of 2!",
     "addr-bits Should be between be 5 and 9"}

GeometryValid ==
    /\ eeprom.size # 0
    /\ IsPow2(eeprom.size)
    /\ eeprom.addr_bits >= 5
    /\ eeprom.addr_bits <= 9

\* C6: for every profile, a request for an access mode that the profile's
\* flags do not contain is rejected by sanitize_input with the unsupported-mode
\* message, and main then exits with failure; the profile passes every other
\* check, so the order of the checks does not change the rejection.
C6_UnsupportedModeRejected ==
    /\ (pc = "sanitized" /\ ~ModeSupported) =>
          (ret < 0 /\ msg \in UnsupportedModeMsgs /\ GeometryValid)
    /\ (pc = "exit" /\ msg \in UnsupportedModeMsgs) =>
          (exit = EXIT_FAILURE /\ ~ModeSupported)
    /\ (pc \in {"read", "read_loop", "write", "enable", "program", "wait",
                "erase", "erase_all"}) => ModeSupported

\* C6 witness: 93c06 asked for in x8 mode.
C6_Witness ==
    /\ pc = "exit"
    /\ eeprom.name = "93c06"
    /\ ~eeprom.is_x16
    /\ msg = "Selected EEPROM does not support x8 mode."
    /\ exit = EXIT_FAILURE

PreOperationMsgs ==
    {"Please specify either EEPROM type, or EEPROM parameters, but not both",
     "Unknown EEPROM type",
     "File size does not match EEPROM size!"}
        \cup InvalidGeometryMsgs \cup UnsupportedModeMsgs

\* C7: in every run in which a configuration conflict, an unknown type, an
\* invalid geometry, an unsupported mode or, for write, an image whose length
\* differs from size is detected, no SPI message has gone to the device: no
\* header, no data, no status poll, and the device is as it was.
C7_NoContactAfterError ==
    (msg \in PreOperationMsgs) =>
        /\ nxfer = 0
        /\ xfer = NoXfer
        /\ (pc = "exit" => exit = EXIT_FAILURE)
        /\ (prev.action = NONE => ~wen)

\* C7 witness: the write operation found the file one byte too long.
C7_Witness ==
    /\ pc = "exit"
    /\ cfg.action = EEPROM_WRITE
    /\ msg = "File size does not match EEPROM size!"
    /\ DOMAIN file = 0 .. eeprom.size

\* C9: every primitive whose bus transfer fails reports the failure to its
\* caller on that call (a negative result); this holds for read_status in
\* the wait loop too.
C9_FailureReported == ~xfer.ok => ret < 0

\* C10: when a header or data transfer of read, write or erase fails, the
\* operation issues no further transfer and the process exit status is a
\* failure.
C10_AbortReported ==
    (~xfer.ok /\ xfer.kind \in {"read", "write", "command"}) =>
        (pc = "exit" /\ exit # EXIT_SUCCESS)


\* A step that puts a write_data message on the bus.
WriteIssued == xfer'.kind = "write" /\ nxfer' = nxfer + 1

\* The last message was a status poll that read 0xFF.
ReadyPolled == xfer.kind = "status" /\ xfer.ok /\ ret = 255

\* C11: in the write operation, after the write_data transfer for a word, no
\* write_data for the next word is issued and the operation does not reach
\* its end until a read_status poll issued after that write has returned
\* 0xFF; between two consecutive word writes the only transfers on the bus
\* are status polls.
C11_WriteReadyOrdering ==
    [][cfg.action = EEPROM_WRITE =>
         /\ (WriteIssued /\ xfer.kind \in {"write", "status"}) => ReadyPolled
         /\ (done' /\ ~done) => ReadyPolled
         /\ (xfer.kind = "write" /\ xfer.ok /\ pc # "exit") =>
               (xfer' = xfer \/ xfer'.kind = "status")
         /\ (xfer.kind = "status" /\ ~ReadyPolled) =>
               (xfer' = xfer \/ xfer'.kind = "status")]_vars

\* C11 witness: the write loop is about to send a word after the poll that
\* followed the previous word read 0xFF.
C11_Witness ==
    /\ cfg.action = EEPROM_WRITE
    /\ pc = "program"
    /\ i > 0
    /\ i < eeprom.size
    /\ ReadyPolled


\* Bytes per transfer of the loops of eeprom_read and eeprom_program_array.
word_size == IF eeprom.is_x16 THEN 2 ELSE 1

\* Number of write_data messages sent so far; the first message of the write
\* operation is enable_write.
WordsWritten == nxfer - 1

\* Passes of a loop for (i = 0; i < size; i += step).
LoopPasses(size, step) == (size + step - 1) \div step

\* The message on the bus is the write_data of word w with the bytes of the
\* image at offsets w * word_size onwards and address argument a.
WriteCarries(w, a) ==
    /\ xfer.addr = a
    /\ xfer.dlen = word_size
    /\ Len(xfer.data) = word_size
    /\ \A k \in 1 .. word_size :
          w * word_size + k - 1 < eeprom.size =>
             xfer.data[k] = buf[w * word_size + k - 1]

\* C12 as stated: write issues size / word_size write_data calls in ascending
\* word order and call i carries the byte offset i * word_size as its address
\* with the image bytes at offsets i * word_size onwards.
C12_WriteByteOffset ==
    cfg.action = EEPROM_WRITE =>
       /\ xfer.kind = "write" =>
             WriteCarries(WordsWritten - 1, (WordsWritten - 1) * word_size)
       /\ Completed => WordsWritten = eeprom.size \div word_size

\* C12: write issues one write_data call per pass of its loop, for the word
\* indices 0, 1, 2, ... in ascending order, and call i carries the word index
\* i as its address (the byte offset only in 8-bit mode) with the image bytes
\* at offsets i * word_size onwards.
C12_WriteWordIndex ==
    cfg.action = EEPROM_WRITE =>
       /\ xfer.kind = "write" => WriteCarries(WordsWritten - 1, WordsWritten - 1)
       /\ xfer.kind \in {"write", "status"} =>
             /\ WordsWritten >= 1
             /\ WordsWritten <= LoopPasses(eeprom.size, word_size)
       /\ Completed => WordsWritten = LoopPasses(eeprom.size, word_size)

\* C12 witness: the second word of a 16-bit write is on the bus.
C12_Witness ==
    /\ cfg.action = EEPROM_WRITE
    /\ eeprom.is_x16
    /\ xfer.kind = "write"
    /\ xfer.ok
    /\ WordsWritten = 2
    /\ xfer.addr = 1
    /\ xfer.data = <<buf[2], buf[3]>>


\* C13: for every effective address width in 5 .. 9 and every starting
\* address a below 2 ^ width, the header read_data builds, decoded from its
\* most significant set bit as start bit, 2-bit opcode, width address bits
\* and one dummy bit, carries the READ opcode and an address field equal to
\* a, in 8-bit and in 16-bit mode, for every address the stepped read loop
\* passes.
C13_ReadHeaderAddress ==
    (/\ xfer.kind = "read"
     /\ eeprom.addr_bits \in 5 .. 9
     /\ xfer.addr < 2 ^ eeprom.addr_bits) =>
       LET d == DevDecode(xfer.txbuf, eeprom.addr_bits)
       IN  /\ d.ok
           /\ d.op = OPCODE_READ
           /\ d.extra = 1
           /\ d.addr = xfer.addr


\* The special command a device reads from the last message, -1 when the
\* message is none.
OnBusSubcode == IF xfer.kind = "command" THEN DevSubcode(xfer, eeprom) ELSE -1

\* C14: in the write operation the first bus transfer is enable_write, every
\* write_data transfer (and every status poll) comes after an enable_write
\* that succeeded, and when enable_write fails the operation aborts without
\* any write_data transfer or status poll.
C14_EnableBeforeWrite ==
    cfg.action = EEPROM_WRITE =>
       /\ nxfer = 0 => xfer.kind = "none"
       /\ nxfer = 1 => xfer.addr = SUBCODE_EWEN /\ OnBusSubcode = SUBCODE_EWEN
       /\ xfer.kind \in {"write", "status"} => nxfer >= 2
       /\ nxfer >= 2 => wen /\ xfer.kind \in {"write", "status"}
       /\ (xfer.kind = "command" /\ ~xfer.ok) =>
             pc = "exit" /\ nxfer = 1 /\ ~done /\ exit = EXIT_FAILURE

\* C14 witness: the first word goes out right after a successful
\* enable_write.
C14_Witness ==
    /\ cfg.action = EEPROM_WRITE
    /\ xfer.kind = "write"
    /\ xfer.ok
    /\ nxfer = 2
    /\ wen

\* C15: the erase operation issues exactly two bus transfers when both
\* succeed, enable_write and then erase_all, each a header with no data
\* phase; it never issues a status poll or a data transfer; it ends right
\* after erase_all succeeds; when enable_write fails erase_all is not issued
\* and the operation aborts.
C15_EraseSequence ==
    cfg.action = EEPROM_ERASE =>
       /\ nxfer <= 2
       /\ xfer.kind \in {"none", "command"}
       /\ xfer.dlen = 0 /\ xfer.data = <<>>
       /\ nxfer = 0 => xfer.kind = "none"
       /\ nxfer = 1 =>
             /\ xfer.len = 2 /\ OnBusSubcode = SUBCODE_EWEN
             /\ IF xfer.ok THEN pc = "erase_all"
                           ELSE pc = "exit" /\ ~done /\ exit = EXIT_FAILURE
       /\ nxfer = 2 =>
             /\ xfer.len = 2 /\ OnBusSubcode = SUBCODE_ERAL
             /\ wen
             /\ pc = "exit"
             /\ xfer.ok => done
       /\ Completed => nxfer = 2 /\ xfer.ok /\ \A k \in DOMAIN mem : mem[k] = 255

\* C15 witness: an erase ended after its two transfers succeeded.
C15_Witness ==
    /\ cfg.action = EEPROM_ERASE
    /\ Completed
    /\ nxfer = 2
    /\ xfer.ok
    /\ OnBusSubcode = SUBCODE_ERAL


\* Bytes per read_data call: the whole image in burst mode, one word
\* otherwise.
ReadLength == IF cfg.burst_read THEN eeprom.size ELSE word_size

\* The filled part of the output buffer is exactly the offsets below n.
FilledBelow(n) == \A k \in DOMAIN buf : (buf[k] # Uninit) <=> (k < n)

\* C16: with burst mode on, read issues exactly one read_data call, at
\* address 0 with length size; with burst mode off it issues size / step
\* calls (step 1 in 8-bit mode, 2 in 16-bit mode) at byte offsets 0, step,
\* 2 * step, ... in ascending order, each of length step; the result of the
\* call at offset k is stored at offset k of the output image, so the calls
\* cover every byte of [0, size) exactly once.
C16_ReadStepping ==
    cfg.action = EEPROM_READ =>
       /\ xfer.kind = "read" =>
             /\ xfer.addr = (nxfer - 1) * ReadLength
             /\ xfer.dlen = ReadLength
             /\ xfer.addr + xfer.dlen <= eeprom.size
             /\ cfg.burst_read => nxfer = 1
             /\ xfer.ok => FilledBelow(xfer.addr + xfer.dlen)
       /\ Completed =>
             /\ nxfer = eeprom.size \div ReadLength
             /\ FilledBelow(eeprom.size)
             /\ file = buf


\* The last message carries a header built by read_data, write_data or
\* send_command for an address width of 5 .. 9.
EngineHeader ==
    /\ xfer.kind \in {"read", "write", "command"}
    /\ eeprom.addr_bits \in 5 .. 9

\* Bits a header needs: start bit, 2-bit opcode, address bits, dummy bits.
HeaderBits == 3 + eeprom.addr_bits + xfer.dummy

\* Bits the header of the last message puts on the bus: len words of
\* bits_per_word = 8.
HeaderLength == xfer.len * 8

\* C17 as stated: the transferred header length in bits is a multiple of 8
\* and is the smallest multiple of 8 that is at least
\* 3 + addr_bits + dummy_bits.
C17_SmallestMultiple ==
    EngineHeader =>
       /\ HeaderLength % 8 = 0
       /\ HeaderLength >= HeaderBits
       /\ HeaderLength - 8 < HeaderBits

\* C17: every header the engine builds for an address width of 5 .. 9 is
\* transferred as 16 bits, a multiple of 8 that holds its
\* 3 + addr_bits + dummy_bits bits (the start bit is bit
\* 2 + addr_bits + dummy_bits of the 16); 16 is the smallest such multiple
\* except when 3 + addr_bits + dummy_bits = 8.
C17_HeaderLength ==
    EngineHeader =>
       /\ HeaderLength = 16
       /\ HeaderLength % 8 = 0
       /\ HeaderLength >= HeaderBits
       /\ HighBit(HeaderValue) + 1 = HeaderBits
       /\ (HeaderLength - 8 < HeaderBits) <=> (HeaderBits # 8)

\* C17 witness: a write_data header for address width 5 went out, 8 bits
\* of content in a 16-bit header.
C17_Witness ==
    /\ EngineHeader
    /\ xfer.kind = "write"
    /\ xfer.ok
    /\ HeaderBits = 8
    /\ HeaderLength = 16


\* C18: if every transfer succeeds and the device answers 0xFF after each
\* word write, write ends after exactly size / word_size word writes (each
\* followed by a poll that read 0xFF); while the device does not answer 0xFF
\* the operation stays in its wait loop.  The part a finite run decides: a
\* write that reached its end has issued exactly size / word_size word
\* writes, the last one followed by a poll that read 0xFF.
C18_WriteTermination ==
    (cfg.action = EEPROM_WRITE /\ Completed) =>
       /\ WordsWritten = eeprom.size \div word_size
       /\ ReadyPolled


\* C19: for every profile that passes validation (every nonzero power-of-two
\* size, 1 included, in either access mode, burst on or off), every data
\* phase of read and write touches only offsets inside [0, size) of the
\* image buffer: no read_data stores and no write_data fetches a byte at an
\* offset >= size.
C19_ImageBounds ==
    /\ ~oob
    /\ (cfg.action = EEPROM_READ /\ xfer.kind = "read") =>
          xfer.addr + xfer.dlen <= eeprom.size
    /\ (cfg.action = EEPROM_WRITE /\ xfer.kind = "write") =>
          (WordsWritten - 1) * word_size + xfer.dlen <= eeprom.size

\* The device has received a successful enable_write in this write or erase.
EnableIssued ==
    /\ cfg.action \in {EEPROM_WRITE, EEPROM_ERASE}
    /\ nxfer >= 2 \/ (nxfer = 1 /\ xfer.ok)

\* C20: no write-disable special command (opcode 00, subcode 00) is ever put
\* on the bus, so after a write or erase that issued enable_write
\* successfully the device is write-enabled when the operation ends, by
\* reaching its end or by abort, and stays so afterwards.
C20_NeverDisabled ==
    /\ xfer.kind = "command" =>
          /\ xfer.cmd = OPCODE_EWEN
          /\ xfer.addr \in {SUBCODE_EWEN, SUBCODE_ERAL}
          /\ OnBusSubcode = xfer.addr
    /\ EnableIssued => wen
    /\ prev.action = EEPROM_WRITE => wen

\* C20 witness: a write ended after its enable_write and the device is
\* write-enabled.
C20_Witness ==
    /\ cfg.action = EEPROM_WRITE
    /\ pc = "exit"
    /\ done
    /\ nxfer >= 2
    /\ wen

====
